---- MODULE Spec2Model ----
(***************************************************************************)
(* The MCP tool-execution status protocol of Roo-Cline.                    *)
(*                                                                         *)
(*   useMcpToolTool   (src/unnamed/part_000): the orchestrator.  It        *)
(*       validates a use_mcp_tool block, asks for approval, calls the      *)
(*       remote tool and posts mcpExecutionStatus messages to the webview. *)
(*   McpExecution     (webview-ui/.../McpExecution.tsx): the projector.    *)
(*       Its onMessage callback folds the status messages addressed to     *)
(*       its executionId into the component state.                         *)
(*                                                                         *)
(* A JavaScript string is a tuple of character tokens, so that             *)
(* concatenation, joining and containment are computed and not assumed.    *)
(* One action is one run of the code between two awaits: JavaScript runs   *)
(* such a stretch without interleaving.                                    *)
(***************************************************************************)
EXTENDS Integers, Sequences, FiniteSets

\* ------------------------------------------------------------------ bounds

\* Invocations of useMcpToolTool started in one behaviour, all tasks together.
MaxInvocations == 2
\* Readings of Date.now() run from 1 to MaxClock.
MaxClock == 2
\* Content items in one remote result.
MaxContent == 2

\* Characters of response text a view accumulates.
MaxResponseLen == 2

\* Deliveries the channel repeats.
MaxRedeliveries == 1

\* The tasks (Task objects) of the process; two are what a collision needs.
Tasks == {"a", "b"}

\* ------------------------------------------------------------ JS values

\* JavaScript's undefined, where a string is expected.  No text holds this token.
Undefined == <<"undefined">>

\* An unset Task.lastMessageTs (the field is optional); Date.now() is >= 1.
NoTs == 0

\* Falsy with the empty string taken for a value (s === undefined).
FalsyOnlyUndefined(s) == s = Undefined

\* `!s` and `if (s)` on a string | undefined.
Falsy(s) == s = Undefined \/ s = <<>>

Digits == <<"0", "1", "2", "3", "4", "5", "6", "7", "8", "9">>

\* Number.prototype.toString() of a non-negative integer.
RECURSIVE ToString(_)
ToString(n) ==
    IF n < 10 THEN <<Digits[n + 1]>>
    ELSE ToString(n \div 10) \o <<Digits[(n % 10) + 1]>>

\* Array.prototype.join.
RECURSIVE Join(_, _)
Join(parts, sep) ==
    IF parts = <<>> THEN <<>>
    ELSE IF Len(parts) = 1 THEN parts[1]
    ELSE parts[1] \o sep \o Join(Tail(parts), sep)

\* Whether token c occurs in text s.
HasToken(s, c) == \E i \in 1..Len(s) : s[i] = c

\* -------------------------------------------------------------- the inputs

\* A missing name is undefined or empty: one of each.
ServerNames == {Undefined, <<"srv">>}
ToolNames == {<<>>, <<"tool">>}

ValidJson == <<"{", "}">>
InvalidJson == <<"{">>
ArgumentTexts == {Undefined, <<>>, ValidJson, InvalidJson}

\* JSON.parse on the argument texts of the model: it throws on all but ValidJson.
JSONParseThrows(s) == s # ValidJson

\* block: ToolUse, the fields useMcpToolTool reads.
Blocks ==
    [partial : BOOLEAN, server_name : ServerNames, tool_name : ToolNames,
     arguments : ArgumentTexts]

NoBlock == [partial |-> FALSE, server_name |-> Undefined, tool_name |-> Undefined,
            arguments |-> Undefined]

\* The binary payload of a resource; text and uri never hold this token.
BlobToken == "Z"

TextResource == [uri |-> <<"u">>, text |-> <<"A">>]
BlobResource == [uri |-> <<"u">>, blob |-> <<BlobToken>>]

\* The content items a remote tool returns: text (possibly empty), resource, image.
ContentItems ==
    { [type |-> "text", text |-> <<>>],
      [type |-> "text", text |-> <<"A">>],
      [type |-> "text", text |-> <<"B">>],
      [type |-> "resource", resource |-> TextResource],
      [type |-> "resource", resource |-> BlobResource],
      [type |-> "image", data |-> <<BlobToken>>] }

RECURSIVE SeqsUpTo(_, _)
SeqsUpTo(S, n) ==
    IF n = 0 THEN {<<>>}
    ELSE LET shorter == SeqsUpTo(S, n - 1)
         IN  shorter \cup {Append(s, x) : s \in {q \in shorter : Len(q) = n - 1}, x \in S}

\* callTool's result when it returns one: {content, isError}.
ResultsOver(items, n) == [content : SeqsUpTo(items, n), isError : BOOLEAN]

\* callTool returned nothing (or was never reached through the ?. chain).
NoResult == [none |-> TRUE]

\* ------------------------------------------------------------------ state

VARIABLES
    tasks,                    \* the Task objects of the process
    now,                      \* Date.now()
    invocations,              \* invocations of useMcpToolTool started so far
    webview,                  \* messages given to postMessageToWebview, in order
    consecutiveMistakeCount,  \* Task.consecutiveMistakeCount, per task
    lastMessageTs,            \* Task.lastMessageTs, per task (NoTs: unset)
    providerAlive,            \* whether Task.providerRef still derefs, per task
    pc,                       \* where the task's invocation is suspended
    block,                    \* the invocation's block
    executionId,              \* the local executionId
    clineProvider,            \* the local clineProvider is defined
    calling,                  \* callTool was called and is in flight
    toolResult,               \* the local toolResult
    toolResultPretty,         \* the local toolResultPretty
    serial,                   \* history: the number of the task's invocation
    did,                      \* history: what the invocation has done so far
    props,                    \* McpExecution's props: executionId, text, isArguments
    view,                     \* McpExecution's state: status, responseText, argumentsText
    closure,                  \* the state onMessage captured at the last render
    delivered,                \* history: the last message given to onMessage
    before,                   \* history: the view before that message
    streamed,                 \* history: the output responses applied, concatenated,
                              \*   while no terminal event was applied
    terminalSeen,             \* history: a terminal event was applied
    alone,                    \* history: the view its own events alone would give
    cursor,                   \* the messages of webview the channel has passed on
    redelivered               \* history: deliveries the channel has repeated

orchVars ==
    <<tasks, now, invocations, webview, consecutiveMistakeCount, lastMessageTs,
      providerAlive, pc, block, executionId, clineProvider, calling, toolResult,
      toolResultPretty, serial, did>>

projVars == <<props, view, closure, delivered, before, streamed, terminalSeen, alone>>

chanVars == <<cursor, redelivered>>

vars == <<orchVars, projVars, chanVars>>

\* What an invocation has done: calls of its collaborators, and the counter on entry.
NothingDone ==
    [kind |-> "none", partialAsks |-> 0, approvals |-> 0, approved |-> FALSE, calls |-> 0,
     pushed |-> <<>>, handled |-> 0, mistakesBefore |-> 0, minted |-> FALSE,
     threw |-> FALSE, postedWhenThrown |-> 0, askRejected |-> FALSE]

\* useState(null): no status yet.
NoStatus == [status |-> "null"]

\* No message has been given to onMessage.
NoMessage == [type |-> "none"]

\* The component as mounted with executionId and no text.
InitView(id) ==
    /\ props = [executionId |-> id, text |-> Undefined, isArguments |-> FALSE,
                response |-> Undefined]
    /\ view = [status |-> NoStatus, responseText |-> <<>>, argumentsText |-> <<>>]
    /\ closure = [responseText |-> <<>>, argumentsText |-> <<>>]
    /\ delivered = NoMessage
    /\ before = view
    /\ streamed = <<>>
    /\ terminalSeen = FALSE
    /\ alone = view

\* The channel has passed nothing on.
InitChannel ==
    /\ cursor = 0
    /\ redelivered = 0

InitOrchestrator ==
    /\ now = 1
    /\ invocations = 0
    /\ webview = <<>>
    /\ consecutiveMistakeCount = [t \in Tasks |-> 0]
    /\ lastMessageTs = [t \in Tasks |-> NoTs]
    /\ providerAlive = [t \in Tasks |-> TRUE]
    /\ pc = [t \in Tasks |-> "idle"]
    /\ block = [t \in Tasks |-> NoBlock]
    /\ executionId = [t \in Tasks |-> Undefined]
    /\ clineProvider = [t \in Tasks |-> FALSE]
    /\ calling = [t \in Tasks |-> FALSE]
    /\ toolResult = [t \in Tasks |-> NoResult]
    /\ toolResultPretty = [t \in Tasks |-> Undefined]
    /\ serial = [t \in Tasks |-> 0]
    /\ did = [t \in Tasks |-> NothingDone]

\* The process with two tasks, and a view that listens for execution "1".
Init ==
    /\ tasks = Tasks
    /\ InitOrchestrator
    /\ InitView(ToString(1))
    /\ InitChannel

\* The process with one task.
InitTask ==
    /\ tasks = {"a"}
    /\ InitOrchestrator
    /\ InitView(ToString(1))
    /\ InitChannel

\* ------------------------------------------------- collaborators of the Task

\* Task.say and Task.ask stamp the message they add with Date.now() and keep the
\* stamp in lastMessageTs.
Stamp(t) == [lastMessageTs EXCEPT ![t] = now]

\* --------------------------------------------------- translating the result

\* RestOfResource without the destructuring: the resource as it came.
WholeResource(resource) == resource

\* const { blob: _, ...rest } = item.resource
RestOfResource(resource) ==
    [k \in DOMAIN resource \ {"blob"} |-> resource[k]]

\* The order in which JSON.stringify writes the fields of a resource.
ResourceKeys == <<"uri", "mimeType", "text", "blob">>

RECURSIVE StringifyFields(_, _)
StringifyFields(obj, i) ==
    IF i > Len(ResourceKeys) THEN <<>>
    ELSE LET k == ResourceKeys[i]
         IN  (IF k \in DOMAIN obj THEN <<"\"" \o k \o "\":">> \o obj[k] \o <<"\n">>
              ELSE <<>>)
             \o StringifyFields(obj, i + 1)

\* JSON.stringify(obj, null, 2) of a flat object of strings.
JSONStringifyPretty(obj) == <<"{", "\n">> \o StringifyFields(obj, 1) \o <<"}">>

\* The callback of toolResult.content.map(...).
Contribution(item) ==
    IF item.type = "text" THEN item.text
    ELSE IF item.type = "resource" THEN JSONStringifyPretty(RestOfResource(item.resource))
    ELSE <<>>

\* FilterBoolean without the filter.
FilterNothing(parts) == parts

\* .filter(Boolean)
FilterBoolean(parts) == SelectSeq(parts, LAMBDA s : ~Falsy(s))

BlankLine == <<"\n", "\n">>

\* outputText: .map(...).filter(Boolean).join("\n\n")
OutputText(content) ==
    Join(FilterBoolean([i \in 1..Len(content) |-> Contribution(content[i])]), BlankLine)

NoResponseText == <<"(No response)">>
ErrorPrefix == <<"Error:", "\n">>
ErrorExecuting == <<"Error executing MCP tool">>
NoResponseFromServer == <<"No response from MCP server">>

\* Whether the output status is sent: content is there and outputText is truthy.
SendsOutput(result) ==
    /\ result # NoResult
    /\ Len(result.content) > 0
    /\ ~Falsy(OutputText(result.content))

\* toolResultPretty after the result was processed.
PrettyOf(result) ==
    IF SendsOutput(result)
    THEN (IF result.isError THEN ErrorPrefix ELSE <<>>) \o OutputText(result.content)
    ELSE NoResponseText

\* The McpExecutionStatus objects the code builds.
StartedStatus(id, server, tool) ==
    [executionId |-> id, status |-> "started", serverName |-> server, toolName |-> tool]

OutputStatus(id, text) ==
    [executionId |-> id, status |-> "output", response |-> text]

\* CompletedStatus that reports completed whatever isError says.
CompletedStatusIgnoringIsError(id, result) ==
    [executionId |-> id, status |-> "completed", response |-> PrettyOf(result),
     error |-> Undefined]

CompletedStatus(id, result) ==
    [executionId |-> id,
     status |-> IF result.isError THEN "error" ELSE "completed",
     response |-> PrettyOf(result),
     error |-> IF result.isError THEN ErrorExecuting ELSE Undefined]

ErrorStatus(id) ==
    [executionId |-> id, status |-> "error", error |-> NoResponseFromServer]

\* JSON.stringify of a status object: the text of a JSON document, in which a field
\* whose value is undefined is left out.
JSONStringify(obj) ==
    [json |-> [k \in {f \in DOMAIN obj : ~(f = "error" /\ obj[f] = Undefined)} |-> obj[k]]]

\* StatusesFor without the else branch of `if (toolResult)`.
StatusesForSilentWithoutResult(id, result) ==
    IF result = NoResult THEN <<>>
    ELSE (IF SendsOutput(result)
          THEN <<OutputStatus(id, OutputText(result.content))>> ELSE <<>>)
         \o <<CompletedStatus(id, result)>>

\* The statuses sent for a result, in the order the code sends them.
StatusesFor(id, result) ==
    IF result = NoResult THEN <<ErrorStatus(id)>>
    ELSE (IF SendsOutput(result)
          THEN <<OutputStatus(id, OutputText(result.content))>> ELSE <<>>)
         \o <<CompletedStatus(id, result)>>

\* clineProvider?.postMessageToWebview({type: "mcpExecutionStatus", text: ...}) for
\* each status; `by` is history: the invocation that posted the message.
Posted(t, statuses) ==
    IF clineProvider[t]
    THEN webview \o [i \in 1..Len(statuses) |->
                        [type |-> "mcpExecutionStatus",
                         text |-> JSONStringify(statuses[i]),
                         by |-> serial[t]]]
    ELSE webview

\* History: the places in webview of the messages invocation n posted.
PostedBy(n) == {i \in 1..Len(webview) : webview[i].by = n}

\* ------------------------------------------------------------ useMcpToolTool

\* formatResponse / sayAndCreateMissingParamError: what pushToolResult is given.
MissingParamError(param) == [kind |-> "toolError", text |-> <<"missing ", param>>]
InvalidArgumentError == [kind |-> "toolError", text |-> <<"invalid JSON argument">>]
ToolResultText(text) == [kind |-> "toolResult", text |-> text]

\* const executionId = cline.lastMessageTs?.toString() ?? Date.now().toString()
MintExecutionId(t) ==
    IF lastMessageTs[t] # NoTs THEN ToString(lastMessageTs[t]) ELSE ToString(now)

\* The call of useMcpToolTool(cline, block, ...): the locals of a new invocation.
Enter(t, b) ==
    /\ t \in tasks
    /\ pc[t] \in {"idle", "done"}
    /\ invocations < MaxInvocations
    /\ invocations' = invocations + 1
    /\ serial' = [serial EXCEPT ![t] = invocations + 1]
    /\ block' = [block EXCEPT ![t] = b]
    /\ clineProvider' = [clineProvider EXCEPT ![t] = FALSE]
    /\ calling' = [calling EXCEPT ![t] = FALSE]
    /\ toolResult' = [toolResult EXCEPT ![t] = NoResult]
    /\ toolResultPretty' = [toolResultPretty EXCEPT ![t] = Undefined]

\* History: the kind of block an invocation was given, in the words of the
\* protocol: partial; a name missing or empty; arguments that do not decode; valid.
BlockKind(b) ==
    IF b.partial THEN "partial"
    ELSE IF b.server_name \in {Undefined, <<>>} \/ b.tool_name \in {Undefined, <<>>}
    THEN "missingParam"
    ELSE IF b.arguments \notin {Undefined, <<>>, ValidJson} THEN "invalidArguments"
    ELSE "valid"

Entered(t, b) ==
    [NothingDone EXCEPT !.mistakesBefore = consecutiveMistakeCount[t],
                        !.kind = BlockKind(b)]

\* The task's invocation returns: its locals are gone.
Return(t) ==
    /\ pc' = [pc EXCEPT ![t] = "done"]
    /\ block' = [block EXCEPT ![t] = NoBlock]
    /\ executionId' = [executionId EXCEPT ![t] = Undefined]
    /\ clineProvider' = [clineProvider EXCEPT ![t] = FALSE]
    /\ calling' = [calling EXCEPT ![t] = FALSE]
    /\ toolResult' = [toolResult EXCEPT ![t] = NoResult]
    /\ toolResultPretty' = [toolResultPretty EXCEPT ![t] = Undefined]

\* Lines 19-27: a partial block is forwarded to cline.ask.
PartialBlock(t, b) ==
    /\ b.partial
    /\ Enter(t, b)
    /\ executionId' = [executionId EXCEPT ![t] = Undefined]
    /\ did' = [did EXCEPT ![t] = [Entered(t, b) EXCEPT !.partialAsks = 1]]
    /\ lastMessageTs' = Stamp(t)
    /\ pc' = [pc EXCEPT ![t] = "askPartial"]
    /\ UNCHANGED <<projVars, chanVars, tasks, now, webview, consecutiveMistakeCount, providerAlive>>

\* AskPartialSettles without `.catch(() => {})`: a rejection reaches the catch clause.
AskPartialUncaught(t) ==
    /\ pc[t] = "askPartial"
    /\ \E rejected \in BOOLEAN :
           IF rejected
           THEN /\ did' = [did EXCEPT ![t].askRejected = TRUE, ![t].threw = TRUE,
                                      ![t].handled = @ + 1]
                /\ pc' = [pc EXCEPT ![t] = "handleError"]
                /\ UNCHANGED <<block, executionId, clineProvider, calling, toolResult,
                               toolResultPretty>>
           ELSE /\ did' = [did EXCEPT ![t].askRejected = FALSE]
                /\ Return(t)
    /\ UNCHANGED <<projVars, chanVars, tasks, now, invocations, webview,
                   consecutiveMistakeCount, lastMessageTs, providerAlive, serial>>

\* Lines 27-28: the ask settles; a rejection is swallowed by .catch(() => {}).
AskPartialSettles(t) ==
    /\ pc[t] = "askPartial"
    /\ \E rejected \in BOOLEAN : did' = [did EXCEPT ![t].askRejected = rejected]
    /\ Return(t)
    /\ UNCHANGED <<projVars, chanVars, tasks, now, invocations, webview,
                   consecutiveMistakeCount, lastMessageTs, providerAlive, serial>>

\* Lines 30-33 and 37-40: server_name or tool_name is missing.
MissingParam(t, b) ==
    /\ ~b.partial
    /\ Falsy(b.server_name) \/ Falsy(b.tool_name)
    /\ Enter(t, b)
    /\ executionId' = [executionId EXCEPT ![t] = Undefined]
    /\ consecutiveMistakeCount' =
           [consecutiveMistakeCount EXCEPT ![t] = consecutiveMistakeCount[t] + 1]
    /\ did' = [did EXCEPT ![t] = Entered(t, b)]
    /\ lastMessageTs' = Stamp(t)
    /\ pc' = [pc EXCEPT ![t] = "sayMissingParam"]
    /\ UNCHANGED <<projVars, chanVars, tasks, now, webview, providerAlive>>

\* Lines 33-34 and 40-41: pushToolResult(missing parameter error); return.
MissingParamPushed(t) ==
    /\ pc[t] = "sayMissingParam"
    /\ did' = [did EXCEPT ![t].pushed =
                  Append(@, MissingParamError(IF Falsy(block[t].server_name)
                                              THEN "server_name" ELSE "tool_name"))]
    /\ Return(t)
    /\ UNCHANGED <<projVars, chanVars, tasks, now, invocations, webview, consecutiveMistakeCount, lastMessageTs,
                   providerAlive, serial>>

\* Lines 46-52: the arguments are there and JSON.parse throws.
InvalidArguments(t, b) ==
    /\ ~b.partial
    /\ ~Falsy(b.server_name) /\ ~Falsy(b.tool_name)
    /\ ~Falsy(b.arguments) /\ JSONParseThrows(b.arguments)
    /\ Enter(t, b)
    /\ executionId' = [executionId EXCEPT ![t] = Undefined]
    /\ consecutiveMistakeCount' =
           [consecutiveMistakeCount EXCEPT ![t] = consecutiveMistakeCount[t] + 1]
    /\ did' = [did EXCEPT ![t] = Entered(t, b)]
    /\ lastMessageTs' = Stamp(t)
    /\ pc' = [pc EXCEPT ![t] = "sayInvalidArguments"]
    /\ UNCHANGED <<projVars, chanVars, tasks, now, webview, providerAlive>>

\* Lines 54-58: pushToolResult(invalid argument error); return.
InvalidArgumentsPushed(t) ==
    /\ pc[t] = "sayInvalidArguments"
    /\ did' = [did EXCEPT ![t].pushed = Append(@, InvalidArgumentError)]
    /\ Return(t)
    /\ UNCHANGED <<projVars, chanVars, tasks, now, invocations, webview, consecutiveMistakeCount, lastMessageTs,
                   providerAlive, serial>>

\* ValidBlock without `cline.consecutiveMistakeCount = 0`.
ValidBlockKeepsCount(t, b) ==
    /\ ~b.partial
    /\ ~Falsy(b.server_name) /\ ~Falsy(b.tool_name)
    /\ Falsy(b.arguments) \/ ~JSONParseThrows(b.arguments)
    /\ Enter(t, b)
    /\ executionId' = [executionId EXCEPT ![t] = MintExecutionId(t)]
    /\ did' = [did EXCEPT ![t] = [Entered(t, b) EXCEPT !.minted = TRUE, !.approvals = 1]]
    /\ lastMessageTs' = Stamp(t)
    /\ pc' = [pc EXCEPT ![t] = "askApproval"]
    /\ UNCHANGED <<projVars, chanVars, tasks, now, webview, consecutiveMistakeCount,
                   providerAlive>>

\* Lines 62-72: the block is valid: reset the counter, mint the id, ask for approval.
ValidBlock(t, b) ==
    /\ ~b.partial
    /\ ~Falsy(b.server_name) /\ ~Falsy(b.tool_name)
    /\ Falsy(b.arguments) \/ ~JSONParseThrows(b.arguments)
    /\ Enter(t, b)
    /\ consecutiveMistakeCount' = [consecutiveMistakeCount EXCEPT ![t] = 0]
    /\ executionId' = [executionId EXCEPT ![t] = MintExecutionId(t)]
    /\ did' = [did EXCEPT ![t] = [Entered(t, b) EXCEPT !.minted = TRUE, !.approvals = 1]]
    /\ lastMessageTs' = Stamp(t)
    /\ pc' = [pc EXCEPT ![t] = "askApproval"]
    /\ UNCHANGED <<projVars, chanVars, tasks, now, webview, providerAlive>>

\* ApprovalDeclined without the `if (!didApprove) return`.
ApprovalDeclinedGoesOn(t) ==
    /\ pc[t] = "askApproval"
    /\ lastMessageTs' = Stamp(t)
    /\ pc' = [pc EXCEPT ![t] = "sayStarted"]
    /\ UNCHANGED <<projVars, chanVars, tasks, now, invocations, webview, consecutiveMistakeCount,
                   providerAlive, block, executionId, clineProvider, calling,
                   toolResult, toolResultPretty, serial, did>>

\* Lines 72-76: approval was declined; return.
ApprovalDeclined(t) ==
    /\ pc[t] = "askApproval"
    /\ Return(t)
    /\ UNCHANGED <<projVars, chanVars, tasks, now, invocations, webview, consecutiveMistakeCount, lastMessageTs,
                   providerAlive, serial, did>>

\* Lines 72-79: approval was granted; say("mcp_server_request_started").
ApprovalGranted(t) ==
    /\ pc[t] = "askApproval"
    /\ did' = [did EXCEPT ![t].approved = TRUE]
    /\ lastMessageTs' = Stamp(t)
    /\ pc' = [pc EXCEPT ![t] = "sayStarted"]
    /\ UNCHANGED <<projVars, chanVars, tasks, now, invocations, webview, consecutiveMistakeCount, providerAlive,
                   block, executionId, clineProvider, calling, toolResult,
                   toolResultPretty, serial>>

\* Line 82: const clineProvider = await cline.providerRef.deref().  A WeakRef that
\* has been cleared stays cleared.
ProviderDeref(t) ==
    /\ pc[t] = "sayStarted"
    /\ \E alive \in {providerAlive[t], FALSE} :
           /\ providerAlive' = [providerAlive EXCEPT ![t] = alive]
           /\ clineProvider' = [clineProvider EXCEPT ![t] = alive]
    /\ pc' = [pc EXCEPT ![t] = "awaitProvider"]
    /\ UNCHANGED <<projVars, chanVars, tasks, now, invocations, webview, consecutiveMistakeCount, lastMessageTs,
                   block, executionId, calling, toolResult, toolResultPretty, serial,
                   did>>

\* StartedAndCall without the post of the started status.
CallWithoutStarted(t) ==
    /\ pc[t] = "awaitProvider"
    /\ \E hub \in BOOLEAN :
           LET called == clineProvider[t] /\ hub
           IN  /\ calling' = [calling EXCEPT ![t] = called]
               /\ did' = [did EXCEPT ![t].calls = IF called THEN @ + 1 ELSE @]
    /\ pc' = [pc EXCEPT ![t] = "callTool"]
    /\ UNCHANGED <<projVars, chanVars, tasks, now, invocations, webview,
                   consecutiveMistakeCount, lastMessageTs, providerAlive, block,
                   executionId, clineProvider, toolResult, toolResultPretty, serial>>

\* Lines 83-97: post the started status, then call the tool through
\* providerRef.deref()?.getMcpHub()?.callTool(...): without a provider or a hub the
\* chain yields undefined and nothing is called.
StartedAndCall(t) ==
    /\ pc[t] = "awaitProvider"
    /\ webview' = Posted(t, <<StartedStatus(executionId[t], block[t].server_name,
                                            block[t].tool_name)>>)
    /\ \E hub \in BOOLEAN :
           LET called == clineProvider[t] /\ hub
           IN  /\ calling' = [calling EXCEPT ![t] = called]
               /\ did' = [did EXCEPT ![t].calls = IF called THEN @ + 1 ELSE @]
    /\ pc' = [pc EXCEPT ![t] = "callTool"]
    /\ UNCHANGED <<projVars, chanVars, tasks, now, invocations, consecutiveMistakeCount, lastMessageTs,
                   providerAlive, block, executionId, clineProvider, toolResult,
                   toolResultPretty, serial>>

\* Lines 99-160: the awaited call yields result: post the statuses, then
\* say("mcp_server_response", toolResultPretty).
ResultProcessed(t, result) ==
    /\ pc[t] = "callTool"
    /\ calling[t] \/ result = NoResult
    /\ toolResult' = [toolResult EXCEPT ![t] = result]
    /\ webview' = Posted(t, StatusesFor(executionId[t], result))
    /\ toolResultPretty' = [toolResultPretty EXCEPT ![t] = PrettyOf(result)]
    /\ calling' = [calling EXCEPT ![t] = FALSE]
    /\ lastMessageTs' = Stamp(t)
    /\ pc' = [pc EXCEPT ![t] = "sayResponse"]
    /\ UNCHANGED <<projVars, chanVars, tasks, now, invocations, consecutiveMistakeCount, providerAlive, block,
                   executionId, clineProvider, serial, did>>

\* Lines 160-163: pushToolResult(formatResponse.toolResult(toolResultPretty)); return.
ResultPushed(t) ==
    /\ pc[t] = "sayResponse"
    /\ did' = [did EXCEPT ![t].pushed = Append(@, ToolResultText(toolResultPretty[t]))]
    /\ Return(t)
    /\ UNCHANGED <<projVars, chanVars, tasks, now, invocations, webview, consecutiveMistakeCount, lastMessageTs,
                   providerAlive, serial>>

\* Caught with the catch clause posting an error status for the exception.
CaughtAndPublished(t) ==
    /\ \/ pc[t] \in {"sayStarted", "sayResponse"}
       \/ pc[t] = "callTool" /\ calling[t]
    /\ did' = [did EXCEPT ![t].threw = TRUE, ![t].handled = @ + 1,
                          ![t].postedWhenThrown = Cardinality(PostedBy(serial[t]))]
    /\ webview' = Posted(t, <<ErrorStatus(executionId[t])>>)
    /\ calling' = [calling EXCEPT ![t] = FALSE]
    /\ pc' = [pc EXCEPT ![t] = "handleError"]
    /\ UNCHANGED <<projVars, chanVars, tasks, now, invocations, consecutiveMistakeCount,
                   lastMessageTs, providerAlive, block, executionId, clineProvider,
                   toolResult, toolResultPretty, serial>>

\* Lines 165-166: an awaited call after approval rejects (say, callTool): the catch
\* clause calls handleError.
Caught(t) ==
    /\ \/ pc[t] \in {"sayStarted", "sayResponse"}
       \/ pc[t] = "callTool" /\ calling[t]
    /\ did' = [did EXCEPT ![t].threw = TRUE, ![t].handled = @ + 1,
                          ![t].postedWhenThrown = Cardinality(PostedBy(serial[t]))]
    /\ calling' = [calling EXCEPT ![t] = FALSE]
    /\ pc' = [pc EXCEPT ![t] = "handleError"]
    /\ UNCHANGED <<projVars, chanVars, tasks, now, invocations, webview, consecutiveMistakeCount, lastMessageTs,
                   providerAlive, block, executionId, clineProvider, toolResult,
                   toolResultPretty, serial>>

\* Lines 166-167: handleError returns; return.
ErrorHandled(t) ==
    /\ pc[t] = "handleError"
    /\ Return(t)
    /\ UNCHANGED <<projVars, chanVars, tasks, now, invocations, webview, consecutiveMistakeCount, lastMessageTs,
                   providerAlive, serial, did>>

\* Date.now() advances.
Tick ==
    /\ now < MaxClock
    /\ now' = now + 1
    /\ UNCHANGED <<projVars, chanVars, tasks, invocations, webview, consecutiveMistakeCount, lastMessageTs,
                   providerAlive, pc, block, executionId, clineProvider, calling,
                   toolResult, toolResultPretty, serial, did>>

\* ------------------------------------------------------ the protocol, two tasks

\* The remote results of the protocol's specification: no content or one text item.
ProtocolResults ==
    {NoResult} \cup [content : {<<>>, <<[type |-> "text", text |-> <<"A">>]>>},
                     isError : BOOLEAN]

Invoke(t) ==
    \E b \in Blocks :
        \/ PartialBlock(t, b)
        \/ MissingParam(t, b)
        \/ InvalidArguments(t, b)
        \/ ValidBlock(t, b)

CallToolSettles(t) == \E result \in ProtocolResults : ResultProcessed(t, result)

Next ==
    \/ Tick
    \/ \E t \in Tasks :
           \/ Invoke(t)
           \/ AskPartialSettles(t)
           \/ MissingParamPushed(t)
           \/ InvalidArgumentsPushed(t)
           \/ ApprovalDeclined(t)
           \/ ApprovalGranted(t)
           \/ ProviderDeref(t)
           \/ StartedAndCall(t)
           \/ CallToolSettles(t)
           \/ ResultPushed(t)
           \/ Caught(t)
           \/ ErrorHandled(t)

\* Two tasks whose invocations interleave at the awaits.
Spec == Init /\ [][Next]_vars

\* One task, its invocations one after the other.
SpecTask == InitTask /\ [][Next]_vars

\* An awaited callTool settles: it yields a result (or nothing), or it rejects.
CallToolEnds(t) == CallToolSettles(t) \/ (pc[t] = "callTool" /\ Caught(t))

\* The awaits of the code settle: the ones of say, ask and handleError, and, as the
\* protocol assumes of the remote call, the one of callTool.
FairSpecTask ==
    /\ SpecTask
    /\ \A t \in Tasks :
           /\ WF_vars(CallToolEnds(t))
           /\ WF_vars(ResultPushed(t))
           /\ WF_vars(ErrorHandled(t))

\* ------------------------------------------- the translation of one result

\* The remote results of the translation's specification.
TranslateResults == {NoResult} \cup ResultsOver(ContentItems, MaxContent)

\* The task's first invocation, with a valid block.
InvokeFirst(t) ==
    /\ serial[t] = 0
    /\ \E b \in Blocks : ValidBlock(t, b)

CallToolYields(t) == \E result \in TranslateResults : ResultProcessed(t, result)

NextTranslate ==
    \E t \in Tasks :
        \/ InvokeFirst(t)
        \/ ApprovalGranted(t)
        \/ ProviderDeref(t)
        \/ StartedAndCall(t)
        \/ CallToolYields(t)
        \/ ResultPushed(t)

\* One approved invocation of one task, over every result of up to MaxContent items.
SpecTranslate == InitTask /\ [][NextTranslate]_vars

\* ------------------------------------------------- McpExecution (projector)

\* An object without fields: the {} that safeJsonParse falls back to.
EmptyObject == <<>>

\* safeJsonParse(text, defaultValue): the document when text is JSON, else the default.
SafeJsonParse(text, defaultValue) ==
    IF "json" \in DOMAIN text THEN text.json ELSE defaultValue

\* message.text || "{}"
TextOrEmptyObject(message) ==
    IF "text" \in DOMAIN message THEN message.text ELSE [json |-> EmptyObject]

\* The fields of each status in the table of the wire record; response is optional
\* on error.
RequiredFields(status) ==
    CASE status = "started" -> {"executionId", "status", "serverName", "toolName"}
      [] status = "output" -> {"executionId", "status", "response"}
      [] status = "completed" -> {"executionId", "status", "response"}
      [] status = "error" -> {"executionId", "status", "error"}
      [] OTHER -> {}

\* mcpExecutionStatusSchema.safeParse(value).success
SchemaAccepts(value) ==
    /\ "status" \in DOMAIN value
    /\ RequiredFields(value.status) # {}
    /\ RequiredFields(value.status) \subseteq DOMAIN value

\* result.data: the fields the schema knows.
SchemaData(value) ==
    LET known == RequiredFields(value.status) \cup
                     (IF value.status = "error" THEN {"response"} ELSE {})
    IN  [f \in DOMAIN value \cap known |-> value[f]]

\* ResponseAfter with completed appending as output does.
ResponseAfterAppending(prev, data) ==
    IF data.status \in {"output", "completed"} /\ ~Falsy(data.response)
    THEN prev \o data.response
    ELSE prev

\* ResponseAfter with completed filling in only a text that is still empty.
ResponseAfterKeepingOutput(prev, data) ==
    IF data.status = "output" /\ ~Falsy(data.response) THEN prev \o data.response
    ELSE IF data.status = "completed" /\ ~Falsy(data.response) /\ prev = <<>>
    THEN data.response
    ELSE prev

\* Lines 98-110: the response text after data, from the text before.
ResponseAfter(prev, data) ==
    IF data.status = "output" /\ ~Falsy(data.response) THEN prev \o data.response
    ELSE IF data.status = "completed" /\ ~Falsy(data.response) THEN data.response
    ELSE prev

\* ArgumentsAfter with setArgumentsText given the response text the event leaves.
ArgumentsAfterTakingResponse(v, cl, pr, data) ==
    IF /\ data.status \in {"output", "completed"}
       /\ ~Falsy(data.response)
       /\ pr.isArguments
       /\ cl.argumentsText = cl.responseText
    THEN ResponseAfter(v.responseText, data)
    ELSE v.argumentsText

\* Lines 101-103 and 107-109: setArgumentsText(responseText), with the texts that
\* onMessage captured.
ArgumentsAfter(v, cl, pr, data) ==
    IF /\ data.status \in {"output", "completed"}
       /\ ~Falsy(data.response)
       /\ pr.isArguments
       /\ cl.argumentsText = cl.responseText
    THEN cl.responseText
    ELSE v.argumentsText

\* ApplyMessage without `if (data.executionId === executionId)`.
ApplyMessageToAnyId(v, cl, pr, message) ==
    IF message.type # "mcpExecutionStatus" THEN v
    ELSE LET value == SafeJsonParse(TextOrEmptyObject(message), EmptyObject)
         IN  IF ~SchemaAccepts(value) THEN v
             ELSE LET data == SchemaData(value)
                  IN  [status |-> data,
                       responseText |-> ResponseAfter(v.responseText, data),
                       argumentsText |-> ArgumentsAfter(v, cl, pr, data)]

\* Lines 84-117: onMessage(event) on view v, with captured state cl and props pr.
ApplyMessage(v, cl, pr, message) ==
    IF message.type # "mcpExecutionStatus" THEN v
    ELSE LET value == SafeJsonParse(TextOrEmptyObject(message), EmptyObject)
         IN  IF ~SchemaAccepts(value) THEN v
             ELSE LET data == SchemaData(value)
                  IN  IF data.executionId # pr.executionId THEN v
                      ELSE [status |-> data,
                            responseText |-> ResponseAfter(v.responseText, data),
                            argumentsText |-> ArgumentsAfter(v, cl, pr, data)]

\* What a render lets onMessage capture (the dependencies of useCallback).
Captured(v) == [responseText |-> v.responseText, argumentsText |-> v.argumentsText]

\* The texts of the model that are JSON objects, and their pretty-printed form.
CompactJson == <<"{\"k\":1}">>
PrettyJson == <<"{\n  \"k\": 1\n}">>

\* Lines 129-137: JSON.stringify(safeJsonParse(text), null, 2) of an object, else text.
FormatArguments(text) == IF text = CompactJson THEN PrettyJson ELSE text

\* Lines 44-46 and 124-147: the state after the component mounted with props pr.
Mounted(pr) ==
    [status |-> NoStatus,
     responseText |-> IF ~Falsy(pr.response) THEN pr.response
                      ELSE IF Falsy(pr.text) THEN <<>> ELSE pr.text,
     argumentsText |-> IF Falsy(pr.text) THEN <<>> ELSE FormatArguments(pr.text)]

\* Lines 183-187: the label of the status line; none is shown while status is null.
StatusLabel(v) ==
    IF v.status = NoStatus THEN "none"
    ELSE IF v.status.status = "started" THEN "Running"
    ELSE IF v.status.status = "completed" THEN "Completed"
    ELSE "Error"

\* Lines 170-182: the colour of the dot and of the label.
StatusColour(v) ==
    IF v.status = NoStatus THEN "none"
    ELSE IF v.status.status = "started" THEN "info"
    ELSE IF v.status.status = "completed" THEN "green"
    ELSE IF v.status.status = "error" THEN "error"
    ELSE "none"

\* The executionId of the view, and another one.
ViewId == ToString(1)
OtherId == ToString(2)

ResponseTexts == {<<>>, <<"X">>, <<"Y">>}

\* The status events of the wire record: every kind for the view's id, one of each
\* kind for the other id.
StartedEvents == {StartedStatus(id, <<"srv">>, <<"tool">>) : id \in {ViewId, OtherId}}
OutputEvents ==
    {OutputStatus(ViewId, r) : r \in ResponseTexts} \cup {OutputStatus(OtherId, <<"X">>)}
CompletedEvents ==
    {[executionId |-> ViewId, status |-> "completed", response |-> r] :
        r \in ResponseTexts}
    \cup {[executionId |-> OtherId, status |-> "completed", response |-> <<"X">>]}
ErrorEvents ==
    {ErrorStatus(id) : id \in {ViewId, OtherId}}
    \cup {[executionId |-> ViewId, status |-> "error", response |-> <<"X">>,
           error |-> ErrorExecuting]}

Envelope(status) == [type |-> "mcpExecutionStatus", text |-> JSONStringify(status)]

\* Messages that fail the schema, are no JSON, or are of another type.
MalformedMessages ==
    { [type |-> "mcpExecutionStatus"],
      [type |-> "mcpExecutionStatus", text |-> [raw |-> <<"X">>]],
      [type |-> "mcpExecutionStatus",
       text |-> [json |-> [executionId |-> ViewId, status |-> "bogus"]]],
      [type |-> "mcpExecutionStatus",
       text |-> [json |-> [executionId |-> ViewId, status |-> "completed"]]],
      [type |-> "state"] }

\* The messages the window may hand to onMessage.
Messages ==
    {Envelope(e) : e \in StartedEvents \cup OutputEvents \cup CompletedEvents
                          \cup ErrorEvents}
    \cup MalformedMessages

\* History: message is a status event that passes the schema and bears id.
Addressed(message, id) ==
    /\ message.type = "mcpExecutionStatus"
    /\ "text" \in DOMAIN message
    /\ "json" \in DOMAIN message.text
    /\ SchemaAccepts(message.text.json)
    /\ message.text.json.executionId = id

\* History: the status of a message that is Addressed.
StatusOf(message) == message.text.json.status

\* onMessage(message) on the view of the component, and what history keeps of it.
Applies(message) ==
    LET mine == Addressed(message, props.executionId)
        terminal == mine /\ StatusOf(message) \in {"completed", "error"}
    IN  /\ view' = ApplyMessage(view, closure, props, message)
        /\ delivered' = message
        /\ before' = view
        /\ terminalSeen' = (terminalSeen \/ terminal)
        /\ streamed' = IF terminalSeen \/ terminal THEN <<>>
                       ELSE IF mine /\ StatusOf(message) = "output"
                       THEN streamed \o message.text.json.response
                       ELSE streamed
        /\ alone' = IF mine THEN ApplyMessage(alone, closure, props, message) ELSE alone

\* The message event fires: onMessage(message).
OnMessage(message) ==
    /\ Len(ApplyMessage(view, closure, props, message).responseText) <= MaxResponseLen
    /\ Applies(message)
    /\ UNCHANGED <<orchVars, props, closure, chanVars>>

\* React renders after a state change: onMessage is made anew.
Render ==
    /\ closure # Captured(view)
    /\ closure' = Captured(view)
    /\ UNCHANGED <<orchVars, props, view, delivered, before, streamed, terminalSeen,
                   alone, chanVars>>

Deliver == \E message \in Messages : OnMessage(message)

NextProjector == Deliver \/ Render

\* The props a view is mounted with.
PropsSet ==
    [executionId : {ViewId}, text : {Undefined, <<"X">>, CompactJson},
     isArguments : BOOLEAN, response : {Undefined}]

InitProjector ==
    /\ tasks = {}
    /\ InitOrchestrator
    /\ props \in PropsSet
    /\ view = Mounted(props)
    /\ closure = Captured(view)
    /\ delivered = NoMessage
    /\ before = view
    /\ streamed = <<>>
    /\ terminalSeen = FALSE
    /\ alone = view
    /\ InitChannel

\* One view and the messages that reach it, in any order and number.
SpecProjector == InitProjector /\ [][NextProjector]_vars

\* ------------------------------------------------------- reading the webview

\* The status object of the i-th message, as its JSON text reads.
StatusAt(i) == webview[i].text.json

IsTerminal(i) == StatusAt(i).status \in {"completed", "error"}

StartedBy(n) == \E i \in PostedBy(n) : StatusAt(i).status = "started"
TerminalBy(n) == \E i \in PostedBy(n) : IsTerminal(i)

\* The invocation numbered n has just posted started and awaits callTool.
AwaitsCall(n) == \E t \in Tasks : serial[t] = n /\ pc[t] = "callTool"

\* The invocation numbered n raised an exception that the catch clause took.
ThrewIn(n) == \E t \in Tasks : serial[t] = n /\ did[t].threw

\* The messages of one invocation are well-formed: started first and once, one
\* terminal status at most, nothing after it.
StreamOfInvocationWellFormed ==
    \A i \in 1..Len(webview) :
        LET earlier == {j \in 1..(i - 1) : webview[j].by = webview[i].by}
        IN  /\ StatusAt(i).status # "started" =>
                   \E j \in earlier : StatusAt(j).status = "started"
            /\ StatusAt(i).status = "started" =>
                   \A j \in earlier : StatusAt(j).status # "started"
            /\ \A j \in earlier : ~IsTerminal(j)

\* ------------------------------------------- the channel between the two

\* The message as the window hands it over: without the history tag.
Wire(message) == [type |-> message.type, text |-> message.text]

\* The channel hands the next message of webview to onMessage.
ChannelDelivers ==
    /\ cursor < Len(webview)
    /\ Applies(Wire(webview[cursor + 1]))
    /\ cursor' = cursor + 1
    /\ UNCHANGED <<orchVars, props, closure, redelivered>>

\* The channel loses the next message, a started or an output.
ChannelLoses ==
    /\ cursor < Len(webview)
    /\ ~IsTerminal(cursor + 1)
    /\ cursor' = cursor + 1
    /\ UNCHANGED <<orchVars, projVars, redelivered>>

\* The channel hands over once more the started or output it passed last.
ChannelRepeats ==
    /\ cursor >= 1
    /\ ~IsTerminal(cursor)
    /\ redelivered < MaxRedeliveries
    /\ Applies(Wire(webview[cursor]))
    /\ redelivered' = redelivered + 1
    /\ UNCHANGED <<orchVars, props, closure, cursor>>

\* A view mounted with any props, one task, and the channel at its start.
InitStream ==
    /\ tasks = {"a"}
    /\ InitOrchestrator
    /\ props \in PropsSet
    /\ view = Mounted(props)
    /\ closure = Captured(view)
    /\ delivered = NoMessage
    /\ before = view
    /\ streamed = <<>>
    /\ terminalSeen = FALSE
    /\ alone = view
    /\ InitChannel

NextStream ==
    \/ \E t \in Tasks :
           \/ InvokeFirst(t)
           \/ ApprovalGranted(t)
           \/ ProviderDeref(t)
           \/ StartedAndCall(t)
           \/ CallToolSettles(t)
           \/ ResultPushed(t)
    \/ ChannelDelivers
    \/ ChannelLoses
    \/ ChannelRepeats
    \/ Render

\* One approved invocation publishes its events; the channel passes them to the
\* view of its executionId in order, losing or repeating a started or an output.
SpecStream == InitStream /\ [][NextStream]_vars

\* ------------------------------------------------------------------ claims

\* C1: the status events published for any one executionId are well-formed: none
\* of output, completed, error comes before a started for that id, started is
\* published at most once, a terminal event at most once, and nothing after it.
C1_StreamOfExecutionIdWellFormed ==
    \A i \in 1..Len(webview) :
        LET earlier == {j \in 1..(i - 1) :
                            StatusAt(j).executionId = StatusAt(i).executionId}
        IN  /\ StatusAt(i).status # "started" =>
                   \E j \in earlier : StatusAt(j).status = "started"
            /\ StatusAt(i).status = "started" =>
                   \A j \in earlier : StatusAt(j).status # "started"
            /\ \A j \in earlier : ~IsTerminal(j)

\* C2, as claimed: an approved invocation that published started and has returned
\* has published a terminal event, whatever the remote call did.
C2_TerminalWhateverTheCallDoes ==
    \A t \in Tasks :
        (pc[t] = "done" /\ StartedBy(serial[t])) => TerminalBy(serial[t])

\* C2, amended: once started is published for an invocation, a terminal event of
\* that invocation is eventually published, unless an awaited call rejects, which
\* ends the invocation in the catch clause.
C2_TerminalUnlessThrown ==
    \A n \in 1..MaxInvocations :
        (StartedBy(n) /\ AwaitsCall(n)) ~> (TerminalBy(n) \/ ThrewIn(n))

\* C2's case: the remote call returned nothing and the invocation published
\* started and then its terminal event.
C2_Witness ==
    \E t \in Tasks :
        /\ pc[t] = "sayResponse" /\ toolResult[t] = NoResult /\ did[t].calls = 1
        /\ StartedBy(serial[t]) /\ TerminalBy(serial[t])

\* C3: executionIds are collision-free: two invocations in flight hold different
\* ids, and no two invocations publish events under the same id.
C3_ExecutionIdsCollisionFree ==
    /\ \A t1, t2 \in Tasks :
           (t1 # t2 /\ executionId[t1] # Undefined /\ executionId[t2] # Undefined)
               => executionId[t1] # executionId[t2]
    /\ \A i, j \in 1..Len(webview) :
           StatusAt(i).executionId = StatusAt(j).executionId
               => webview[i].by = webview[j].by

C5_DeclinedIsSilent ==
    \A t \in Tasks :
        /\ (did[t].kind = "valid" /\ ~did[t].approved) =>
               /\ PostedBy(serial[t]) = {}
               /\ did[t].calls = 0
               /\ did[t].pushed = <<>>
        /\ did[t].calls > 0 => did[t].approved

\* C5's case: approval was asked for and declined, and the invocation returned.
C5_Witness ==
    \E t \in Tasks :
        /\ pc[t] = "done" /\ did[t].kind = "valid"
        /\ did[t].approvals = 1 /\ ~did[t].approved

\* The last message an invocation posted.
LastBy(n) == StatusAt(CHOOSE i \in PostedBy(n) : \A j \in PostedBy(n) : j <= i)

\* C6: the terminal event matches the remote outcome: completed exactly when the
\* result says isError false; error with the generic message when it says isError
\* true; error with the no-response message, and no output, when there is no result.
C6_TerminalMatchesOutcome ==
    \A t \in Tasks :
        (pc[t] = "sayResponse" /\ clineProvider[t]) =>
            LET mine == PostedBy(serial[t])
                last == LastBy(serial[t])
                r == toolResult[t]
            IN  /\ mine # {}
                /\ Cardinality({i \in mine : IsTerminal(i)}) = 1
                /\ last.status \in {"completed", "error"}
                /\ last.status = "completed" <=> (r # NoResult /\ ~r.isError)
                /\ (r # NoResult /\ r.isError) => last.error = ErrorExecuting
                /\ r = NoResult =>
                       /\ last.error = NoResponseFromServer
                       /\ \A i \in mine : StatusAt(i).status # "output"

\* C6's case: the call was made and returned nothing, and the invocation's last
\* event is error.
C6_Witness ==
    \E t \in Tasks :
        /\ pc[t] = "sayResponse" /\ clineProvider[t]
        /\ did[t].calls = 1 /\ toolResult[t] = NoResult
        /\ LastBy(serial[t]).status = "error"

\* The contribution of a content item, as the protocol states it.
StatedContribution(item) ==
    CASE item.type = "text" -> item.text
      [] item.type = "resource" -> JSONStringifyPretty(RestOfResource(item.resource))
      [] OTHER -> <<>>

\* The non-empty contributions in order, a blank line between two of them.
RECURSIVE JoinedText(_)
JoinedText(content) ==
    IF content = <<>> THEN <<>>
    ELSE LET first == StatedContribution(Head(content))
             rest == JoinedText(Tail(content))
         IN  IF first = <<>> THEN rest
             ELSE IF rest = <<>> THEN first
             ELSE first \o <<"\n", "\n">> \o rest

\* A successful result has been processed and its events published.
Succeeded(t) ==
    /\ pc[t] = "sayResponse" /\ clineProvider[t]
    /\ toolResult[t] # NoResult /\ ~toolResult[t].isError

\* The output events of an invocation carry text, and there is one only if text
\* is not empty.
OutputsCarry(n, text) ==
    \A i \in PostedBy(n) :
        StatusAt(i).status = "output" => (StatusAt(i).response = text /\ text # <<>>)

\* C7, as claimed: the response of completed is the joined text, and an output
\* event carries the same text and is there only when the text is not empty.
C7_CompletedIsJoinedText ==
    \A t \in Tasks :
        Succeeded(t) =>
            LET text == JoinedText(toolResult[t].content)
            IN  /\ LastBy(serial[t]).response = text
                /\ OutputsCarry(serial[t], text)

\* C7, amended: the response of completed is the joined text when that is not
\* empty and the placeholder "(No response)" when it is; an output event carries
\* the joined text and is there only when the text is not empty.
C7_CompletedIsJoinedTextOrPlaceholder ==
    \A t \in Tasks :
        Succeeded(t) =>
            LET text == JoinedText(toolResult[t].content)
            IN  /\ LastBy(serial[t]).response =
                       (IF text = <<>> THEN NoResponseText ELSE text)
                /\ OutputsCarry(serial[t], text)

\* C7's case: two text items A and B gave output and completed "A\n\nB".
C7_Witness ==
    \E t \in Tasks :
        /\ Succeeded(t)
        /\ Len(toolResult[t].content) = 2
        /\ LastBy(serial[t]).response = <<"A", "\n", "\n", "B">>
        /\ \E i \in PostedBy(serial[t]) :
               /\ StatusAt(i).status = "output"
               /\ StatusAt(i).response = <<"A", "\n", "\n", "B">>

\* The texts a status object carries.
TextsOf(status) == {status[f] : f \in DOMAIN status \cap {"response", "error"}}

\* C8: no status event and no pushed tool result holds the blob of a resource.
C8_BlobNeverForwarded ==
    /\ \A i \in 1..Len(webview) :
           \A text \in TextsOf(StatusAt(i)) : ~HasToken(text, BlobToken)
    /\ \A t \in Tasks :
           /\ ~HasToken(toolResultPretty[t], BlobToken)
           /\ \A k \in 1..Len(did[t].pushed) :
                  ~HasToken(did[t].pushed[k].text, BlobToken)

\* C8's case: a result with a blob resource was translated, published and pushed.
C8_Witness ==
    \E t \in Tasks :
        /\ pc[t] = "done" /\ Len(did[t].pushed) = 1
        /\ \E i \in PostedBy(serial[t]) :
               /\ StatusAt(i).status = "output"
               /\ StatusAt(i).response =
                      JSONStringifyPretty([uri |-> BlobResource.uri])

\* The terminal events addressed to id.
TerminalMessagesFor(id) ==
    {Envelope(e) : e \in {x \in CompletedEvents \cup ErrorEvents : x.executionId = id}}

\* What the view shows: the status (with its error) and the response text.
Shown(v) == <<v.status, v.responseText>>

\* C9: for every view state and every terminal event addressed to the view,
\* applying the event twice in a row (with or without a render in between) gives
\* the same status, response text and error as applying it once.
C9_TerminalEventIdempotent ==
    \A message \in TerminalMessagesFor(props.executionId) :
        LET once == ApplyMessage(view, closure, props, message)
        IN  /\ Shown(ApplyMessage(once, closure, props, message)) = Shown(once)
            /\ Shown(ApplyMessage(once, Captured(once), props, message)) = Shown(once)

\* C9's case: a completed event was applied to a view that the same event had
\* already completed, after streamed output.
C9_Witness ==
    /\ delivered = Envelope([executionId |-> props.executionId, status |-> "completed",
                             response |-> <<"X">>])
    /\ before.status = delivered.text.json
    /\ Shown(view) = Shown(before)

\* The last message was a completed event addressed to the view.
CompletedDelivered ==
    delivered \in {Envelope(e) : e \in {x \in CompletedEvents :
                                            x.executionId = props.executionId}}

ErrorDelivered ==
    delivered \in {Envelope(e) : e \in {x \in ErrorEvents :
                                            x.executionId = props.executionId}}

\* C11: after an error event for its executionId the view's status is error, its
\* error is the event's error message and, if the event carries a response, the
\* response text is exactly that response.
C11_ErrorSetsResponse ==
    ErrorDelivered =>
        LET data == delivered.text.json
        IN  /\ view.status.status = "error"
            /\ view.status.error = data.error
            /\ "response" \in DOMAIN data => view.responseText = data.response

\* The part of C11 that the code keeps: the status and the error message.
ErrorSetsStatus ==
    ErrorDelivered =>
        /\ view.status.status = "error"
        /\ view.status.error = delivered.text.json.error
        /\ view.responseText = before.responseText

\* The last message was an output event addressed to the view.
OutputDelivered ==
    Addressed(delivered, props.executionId) /\ StatusOf(delivered) = "output"

\* C12: for a view that has received no terminal event, after output events for
\* its executionId (with or without a started before them) the response text is
\* the concatenation of their responses in arrival order, and nothing else.
C12_OutputAccumulates ==
    (OutputDelivered /\ ~terminalSeen) => view.responseText = streamed

\* What the code keeps of C12: the responses are appended, in arrival order, to
\* the text the view was mounted with.
OutputFollowsMountedText ==
    ~terminalSeen => view.responseText = Mounted(props).responseText \o streamed

\* The channel has handed the terminal event of the stream to the view.
TerminalApplied ==
    /\ cursor >= 1
    /\ IsTerminal(cursor)
    /\ delivered = Wire(webview[cursor])

\* The view that the terminal event alone gives: every earlier event lost.
TerminalAlone ==
    ApplyMessage(Mounted(props), Captured(Mounted(props)), props, Wire(webview[cursor]))

\* C13: once the terminal event of a stream the orchestrator published has been
\* applied, the status, response text and error of the view are those the
\* terminal event alone gives, whichever of the earlier started and output events
\* were lost or delivered twice.
C13_TerminalAloneDecides ==
    TerminalApplied => Shown(view) = Shown(TerminalAlone)

\* What the code keeps of C13: the streams that end in completed.
CompletedAloneDecides ==
    (TerminalApplied /\ StatusAt(cursor).status = "completed")
        => Shown(view) = Shown(TerminalAlone)

\* C14: a message that fails the schema, or a valid status event for another
\* executionId, leaves the status, response text and error of the view as they
\* were; hence, whatever events of another execution are interleaved with its
\* own, the view shows what its own events alone give.
C14_OthersLeaveViewAlone ==
    /\ (delivered # NoMessage /\ ~Addressed(delivered, props.executionId))
           => Shown(view) = Shown(before)
    /\ Shown(view) = Shown(alone)

\* C14's case: between the output and the terminal event of the view's execution
\* the completed event of the other execution arrived, and the view kept its text.
C14_Witness ==
    /\ delivered = Envelope([executionId |-> OtherId, status |-> "completed",
                             response |-> <<"X">>])
    /\ before.status = OutputStatus(ViewId, <<"Y">>)
    /\ view.status = before.status
    /\ view.responseText = <<"Y">>

\* C15: an exception raised after approval is caught and handed to handleError
\* exactly once; no status event is published for it, so the messages of the
\* invocation stay those published when it was raised; handleError is called for
\* nothing else.
C15_ExceptionBypassesStream ==
    \A t \in Tasks :
        /\ did[t].threw =>
               /\ did[t].approved
               /\ did[t].handled = 1
               /\ pc[t] \in {"handleError", "done"}
               /\ Cardinality(PostedBy(serial[t])) = did[t].postedWhenThrown
        /\ ~did[t].threw => did[t].handled = 0

\* C15's case: the remote call rejected after started was published; the
\* invocation has returned and its stream has no terminal event.
C15_Witness ==
    \E t \in Tasks :
        /\ pc[t] = "done" /\ did[t].threw /\ did[t].calls = 1
        /\ did[t].postedWhenThrown = 1
        /\ StartedBy(serial[t]) /\ ~TerminalBy(serial[t])

\* Nothing is published before approval is granted, and the remote call is made
\* only once started is published.
StartedBetweenApprovalAndCall ==
    \A t \in Tasks :
        /\ PostedBy(serial[t]) # {} => did[t].approved
        /\ did[t].approved => did[t].approvals = 1
        /\ did[t].calls > 0 => StartedBy(serial[t])

\* C16, as claimed: approval is requested first, the executionId is minted only
\* after approval is granted (none for an invocation whose approval is pending or
\* declined), started is published next, and only then is the remote tool called.
C16_MintedAfterApproval ==
    /\ \A t \in Tasks :
           /\ did[t].minted => did[t].approved
           /\ executionId[t] # Undefined => did[t].approved
    /\ StartedBetweenApprovalAndCall

\* C16, amended: the executionId is minted when approval is requested, before the
\* decision; nothing is published under it until approval is granted; started is
\* published next, and only then is the remote tool called.
C16_MintedWhenApprovalRequested ==
    /\ \A t \in Tasks :
           /\ did[t].minted <=> did[t].approvals = 1
           /\ executionId[t] # Undefined => did[t].minted
           /\ pc[t] = "askApproval" => executionId[t] # Undefined
    /\ StartedBetweenApprovalAndCall

\* C16's case: approval was granted, started is published under the id minted
\* before, and the remote call is in flight.
C16_Witness ==
    \E t \in Tasks :
        /\ pc[t] = "callTool" /\ calling[t]
        /\ did[t].minted /\ did[t].approved
        /\ \E i \in PostedBy(serial[t]) :
               /\ StatusAt(i).status = "started"
               /\ StatusAt(i).executionId = executionId[t]

\* C17: after an output event the view presents a streaming phase that is not
\* the error phase: it presents error only when the last event applied for its
\* executionId was an error event, and completed only when it was completed.
C17_ErrorPresentedOnlyAfterError ==
    /\ StatusLabel(view) = "Error" => view.status.status = "error"
    /\ StatusLabel(view) = "Completed" => view.status.status = "completed"
    /\ (OutputDelivered /\ view.status = delivered.text.json)
           => StatusLabel(view) \notin {"Error", "Completed"}

\* What the code keeps of C17: completed is presented only after completed, and
\* the colour of an error only after an error.
CompletedPresentedOnlyAfterCompleted ==
    /\ StatusLabel(view) = "Completed" => view.status.status = "completed"
    /\ StatusColour(view) = "error" => view.status.status = "error"
    /\ StatusColour(view) = "green" => view.status.status = "completed"

\* C18: a non-partial invocation that passes validation and decoding resets the
\* mistake counter to 0 before it asks for approval, and no later step of it
\* changes the counter: it is 0 while approval is pending, after a decline, and
\* whatever the remote call does.
C18_ValidInvocationResetsCounter ==
    \A t \in Tasks :
        did[t].kind = "valid" =>
            /\ consecutiveMistakeCount[t] = 0
            /\ did[t].approvals = 1

\* C18's case: the counter stood at 1 when a valid invocation began; its approval
\* was declined and it has returned.
C18_Witness ==
    \E t \in Tasks :
        /\ did[t].kind = "valid" /\ did[t].mistakesBefore = 1
        /\ pc[t] = "done" /\ ~did[t].approved
        /\ consecutiveMistakeCount[t] = 0

\* C19: an invocation with a partial block only forwards it to ask, once: whatever
\* the names and arguments are, it leaves the mistake counter as it was, asks for
\* no approval, mints no executionId, publishes nothing, calls no tool and pushes
\* no result; when the ask has settled, rejected or not, it has returned without
\* handleError.
C19_PartialOnlyAsks ==
    \A t \in Tasks :
        did[t].kind = "partial" =>
            /\ did[t].partialAsks = 1
            /\ consecutiveMistakeCount[t] = did[t].mistakesBefore
            /\ did[t].approvals = 0
            /\ ~did[t].minted /\ executionId[t] = Undefined
            /\ PostedBy(serial[t]) = {}
            /\ did[t].calls = 0
            /\ did[t].pushed = <<>>
            /\ did[t].handled = 0 /\ ~did[t].threw
            /\ pc[t] \in {"askPartial", "done"}
            /\ did[t].askRejected => pc[t] = "done"

\* C19's case: the ask of a partial block was rejected, after an earlier mistake
\* of the task, and the invocation has returned.
C19_Witness ==
    \E t \in Tasks :
        /\ did[t].kind = "partial" /\ did[t].askRejected /\ pc[t] = "done"
        /\ did[t].mistakesBefore = 1 /\ consecutiveMistakeCount[t] = 1
        /\ did[t].handled = 0

\* The status events addressed to id.
StatusMessagesFor(id) ==
    {Envelope(e) : e \in {x \in StartedEvents \cup OutputEvents \cup CompletedEvents
                                   \cup ErrorEvents : x.executionId = id}}

====
